---- MODULE Spec2Model ----
(***************************************************************************)
(* Model of the open-cwm stage pipeline engine (orchestrator/pipeline.py). *)
(* The workspace (cache files, artifacts, checkout, directories) is the    *)
(* shared state; every caller process walks run_stage / run_until in the   *)
(* steps the code takes: cache check, handler, cache write.                *)
(***************************************************************************)
EXTENDS Integers, Sequences, FiniteSets, TLC

VARIABLES
    repo,       \* RepoSpec of the pipeline context (commit, tests.markers_exclude)
    tree,       \* content of the repository that a clone puts into the checkout
    checkout,   \* state of repos/<id>: "absent", "cloned" (default HEAD), "pinned"
    dirs,       \* directories that exist under the workspace
    cache,      \* state/<id>/<stage>.json : function from the stages that have a file
    files,      \* artifacts/<id>/* and logs/<id>/* : function from the files that exist
    pc,         \* per caller: "idle", "check", "handler", "write"
    call,       \* per caller: the call in progress (op, target, stage)
    result,     \* per caller: StageResult returned by the handler, not yet written
    obs,        \* per caller: handlers invoked, processes launched, caches written in the call
    last,       \* summary of the call that finished last
    prev,       \* the call before `last`, when both are run_stage of one stage and it returned
    before,     \* the workspace as it was when the call of `last` started
    helper      \* a call of one of the module's pure helper functions: fn, arg, done, ret

vars == <<repo, tree, checkout, dirs, cache, files, pc, call, result, obs, last, prev, before,
          helper>>

----------------------------------------------------------------------------
(* Bounds *)

NProcs == 2          \* caller processes
MaxReturnCode == 1   \* exit codes of external commands range over 0..MaxReturnCode

MaxCount == 2        \* the integers of summary chunks range over 1..MaxCount
MaxChunks == 2       \* comma-separated chunks of a summary line
MaxMarkers == 2      \* entries of an excluded-marker list

Procs == 1..NProcs
ReturnCodes == 0..MaxReturnCode

SeqsUpTo(S, n) == UNION {[1..k -> S] : k \in 0..n}

----------------------------------------------------------------------------
(* Stage enumeration *)

\* mutant of ordered: Build and Test change places
ordered_test_before_build ==
    <<"discover", "plan", "test", "build", "package", "publish">>

ordered == <<"discover", "plan", "build", "test", "package", "publish">>

StageNames == {ordered[i] : i \in 1..Len(ordered)}

StageIdx(s) == CHOOSE i \in 1..Len(ordered) : ordered[i] = s

(* StageResult and its dict form *)

StageResult(name, status, details) == [name |-> name, status |-> status, details |-> details]

to_dict(r) == [stage |-> r.name, status |-> r.status, details |-> r.details]

\* mutant of from_dict: the name is read from the key "name", which to_dict never writes
from_dict_wrong_key(d) ==
    [name    |-> IF "name" \in DOMAIN d THEN d.name ELSE "",
     status  |-> IF "status" \in DOMAIN d THEN d.status ELSE "unknown",
     details |-> IF "details" \in DOMAIN d THEN d.details ELSE [empty |-> TRUE]]

from_dict(d) ==
    [name    |-> IF "stage" \in DOMAIN d THEN d.stage ELSE "",
     status  |-> IF "status" \in DOMAIN d THEN d.status ELSE "unknown",
     details |-> IF "details" \in DOMAIN d THEN d.details ELSE [empty |-> TRUE]]

NoResult == StageResult("", "", [empty |-> TRUE])

----------------------------------------------------------------------------
(* Repository trees and descriptors the pipeline is run on *)

requirement_files ==
    <<"requirements.txt", "requirements-dev.txt", "requirements-test.txt",
      "requirements/tests.txt", "requirements/dev.txt", "requirements/test.txt",
      "requirements/ci.txt">>

\* A tree: the files present, the [project.optional-dependencies] group names,
\* whether [tool.poetry] exists, the poetry groups that list dependencies, and
\* the workflow files under .github/workflows.
Tree(fs, optional, poetry, groups, workflows) ==
    [files |-> fs, optional |-> optional, poetry |-> poetry,
     poetry_groups |-> groups, workflows |-> workflows]

RepoSpec(commit, markers_exclude) ==
    [commit |-> commit, markers_exclude |-> markers_exclude]

\* The catalog entries the pipeline is explored on, each with the tree its
\* URL holds: a bare tree for an entry without revision and markers, and a
\* tree with a requirements file and a project manifest for a pinned entry.
Projects ==
    { [repo |-> RepoSpec("", <<>>), tree |-> Tree({}, {}, FALSE, {}, <<>>)],
      [repo |-> RepoSpec("rev", <<"slow">>),
       tree |-> Tree({"requirements.txt", "pyproject.toml"}, {"test"}, FALSE, {}, <<>>)] }

(* An external command: argv, plus the parts the code builds into one argument *)
Cmd(argv, extras, expr) == [argv |-> argv, extras |-> extras, expr |-> expr]

Pip == <<"python", "-m", "pip", "install">>

(* _detect_toolchain *)
_detect_toolchain(t) ==
    [pyproject       |-> "pyproject.toml" \in t.files,
     poetry          |-> "pyproject.toml" \in t.files /\ t.poetry,
     requirements    |-> "requirements.txt" \in t.files,
     environment_yml |-> "environment.yml" \in t.files,
     ci_workflows    |-> t.workflows]

\* mutant of _choose_strategy: the poetry section is looked at before the workflows
_choose_strategy_poetry_first(toolchain) ==
    IF toolchain.poetry THEN "poetry"
    ELSE IF toolchain.ci_workflows # <<>> THEN "activ"
    ELSE IF toolchain.environment_yml THEN "conda"
    ELSE IF toolchain.requirements THEN "pip"
    ELSE "custom"

(* _choose_strategy *)
_choose_strategy(toolchain) ==
    IF toolchain.ci_workflows # <<>> THEN "activ"
    ELSE IF toolchain.poetry THEN "poetry"
    ELSE IF toolchain.environment_yml THEN "conda"
    ELSE IF toolchain.requirements THEN "pip"
    ELSE "custom"

(* _infer_project_extras: sorted(set(extras)) over the four candidate names *)
SortedCandidates == <<"ci", "dev", "test", "tests">>

\* mutant of _infer_project_extras: the names are left in the order they are looked up
_infer_project_extras_unsorted(t) ==
    LET has == "pyproject.toml" \in t.files
        found == IF has
                 THEN (t.optional \cup (IF t.poetry THEN t.poetry_groups ELSE {}))
                 ELSE {}
        keep(c) == c \in found
    IN SelectSeq(<<"dev", "test", "tests", "ci">>, keep)

_infer_project_extras(t) ==
    LET has == "pyproject.toml" \in t.files
        found == IF has
                 THEN (t.optional \cup (IF t.poetry THEN t.poetry_groups ELSE {}))
                 ELSE {}
        keep(c) == c \in found
    IN SelectSeq(SortedCandidates, keep)

(* _build_install_commands *)
_build_install_commands(t) ==
    LET present(f) == f \in t.files
        reqs == SelectSeq(requirement_files, present)
        req_cmds == [i \in 1..Len(reqs) |-> Cmd(Pip \o <<"-r", reqs[i]>>, <<>>, <<>>)]
        extras == _infer_project_extras(t)
        editable == IF {"setup.py", "setup.cfg", "pyproject.toml"} \cap t.files # {}
                    THEN <<Cmd(Pip \o <<"-e", ".">>, extras, <<>>)>>
                    ELSE <<>>
    IN req_cmds \o editable \o <<Cmd(Pip \o <<"pytest", "coverage">>, <<>>, <<>>)>>

\* mutant of _build_marker_expression: a clause is built for every entry of the list
_build_marker_expression_every_entry(markers) ==
    [i \in 1..Len(markers) |-> <<"not", markers[i]>>]

(* _build_marker_expression: the clauses, joined by " and " *)
_build_marker_expression(markers) ==
    LET nonempty(m) == m # ""
        kept == SelectSeq(markers, nonempty)
    IN [i \in 1..Len(kept) |-> <<"not", kept[i]>>]

----------------------------------------------------------------------------
(* _parse_pytest_summary.  An output is a sequence of lines; a line is       *)
(* [boxed, chunks, tail]: whether it starts with "===", its comma-separated  *)
(* chunks before the first " in ", and whether " in ..." follows.  A chunk   *)
(* is [count, label]; count = -1 stands for a chunk that is not              *)
(* "<digits> <label>".                                                       *)

Line(boxed, chunks, tail) == [boxed |-> boxed, chunks |-> chunks, tail |-> tail]

Chunk(n, label) == [count |-> n, label |-> label]

CountKeys ==
    {"passed", "failed", "errors", "skipped", "xfailed", "xpassed", "rerun",
     "deselected", "warnings"}

ZeroCounts == [k \in CountKeys |-> 0]

\* str.lower() on the labels that occur in the modelled outputs
lower(label) ==
    CASE label = "PASSED" -> "passed"
      [] label = "Failed" -> "failed"
      [] label = "Failure" -> "failure"
      [] OTHER -> label

\* the key a lower-cased label is counted under, "" when it is ignored
LabelKey(label) ==
    IF label \in CountKeys THEN label
    ELSE IF label \in {"error", "errors"} THEN "errors"
    ELSE IF label \in {"failures"} THEN "failed"
    ELSE IF label \in {"passes"} THEN "passed"
    ELSE IF label \in {"warning", "warnings"} THEN "warnings"
    ELSE IF label \in {"rerun", "reruns"} THEN "rerun"
    ELSE ""

IsBlank(line) == ~line.boxed /\ line.chunks = <<>> /\ ~line.tail

IsBanner(line) == line.boxed /\ line.tail

IsBare(line) ==
    /\ ~line.boxed
    /\ line.tail
    /\ line.chunks # <<>>
    /\ \A i \in 1..Len(line.chunks) : line.chunks[i].count >= 0

\* index of the line the reversed scan stops at, 0 when it reaches the top
SummaryLineIdx(output) ==
    LET hits == {i \in 1..Len(output) : IsBanner(output[i]) \/ IsBare(output[i])}
    IN IF hits = {} THEN 0 ELSE CHOOSE i \in hits : \A j \in hits : j <= i

\* mutant of CountChunks: a count is set to the chunk's integer, not increased by it
RECURSIVE CountChunks_overwrites(_, _)
CountChunks_overwrites(chunks, counts) ==
    IF chunks = <<>> THEN counts
    ELSE LET c == Head(chunks)
             key == IF c.count >= 0 THEN LabelKey(lower(c.label)) ELSE ""
             next == IF key = "" THEN counts
                     ELSE [counts EXCEPT ![key] = c.count]
         IN CountChunks_overwrites(Tail(chunks), next)

RECURSIVE CountChunks(_, _)
CountChunks(chunks, counts) ==
    IF chunks = <<>> THEN counts
    ELSE LET c == Head(chunks)
             key == IF c.count >= 0 THEN LabelKey(lower(c.label)) ELSE ""
             next == IF key = "" THEN counts
                     ELSE [counts EXCEPT ![key] = @ + c.count]
         IN CountChunks(Tail(chunks), next)

_parse_pytest_summary(output) ==
    LET i == SummaryLineIdx(output)
    IN IF i = 0 THEN ZeroCounts ELSE CountChunks(output[i].chunks, ZeroCounts)

----------------------------------------------------------------------------
(* Workspace *)

Workspace(co, ds, ch, fs) == [checkout |-> co, dirs |-> ds, cache |-> ch, files |-> fs]

ws == Workspace(checkout, dirs, cache, files)

Put(f, k, v) == [x \in (DOMAIN f) \cup {k} |-> IF x = k THEN v ELSE f[x]]

NoFiles == [x \in {} |-> TRUE]

(* PipelineContext paths *)
stage_output(stage) == stage

repo_checkout_path == "repos/id"

artifact_path(relative) == relative

\* the directories the path properties create on access (ensure_directory)
state_dir(w) == [w EXCEPT !.dirs = @ \cup {"state"}]

artifacts_dir(w) == [w EXCEPT !.dirs = @ \cup {"artifacts"}]

logs_dir(w) == [w EXCEPT !.dirs = @ \cup {"logs"}]

repos_dir(w) == [w EXCEPT !.dirs = @ \cup {"repos"}]

(* What a handler does: raised or returned, the workspace it leaves, and the
   external commands it launched, in order *)
Raised(error, w, launches) ==
    [raised |-> TRUE, error |-> error, result |-> NoResult, w |-> w, launches |-> launches]

Returned(r, w, launches) ==
    [raised |-> FALSE, error |-> "", result |-> r, w |-> w, launches |-> launches]

----------------------------------------------------------------------------
(* Stage handlers.  Each is the whole handler: the exit codes and outputs of
   the external commands it launches are its inputs. *)

GitClone == Cmd(<<"git", "clone", "url", repo_checkout_path>>, <<>>, <<>>)

GitCheckout == Cmd(<<"git", "checkout", repo.commit>>, <<>>, <<>>)

\* mutant of ensure_checkout: the exit codes of git are not looked at
ensure_checkout_unchecked(w, rc_clone, rc_checkout) ==
    LET w1 == repos_dir(w)
        w2 == IF rc_clone = 0
              THEN [w1 EXCEPT !.checkout = "cloned", !.dirs = @ \cup {"checkout"}]
              ELSE w1
        w3 == IF rc_clone = 0 /\ rc_checkout = 0 THEN [w2 EXCEPT !.checkout = "pinned"] ELSE w2
    IN IF w1.checkout # "absent"
       THEN [raised |-> FALSE, created |-> FALSE, w |-> w1, launches |-> <<>>]
       ELSE IF repo.commit = ""
       THEN [raised |-> FALSE, created |-> TRUE, w |-> w2, launches |-> <<GitClone>>]
       ELSE [raised |-> FALSE, created |-> TRUE, w |-> w3,
             launches |-> <<GitClone, GitCheckout>>]

(* PipelineContext.ensure_checkout; run_command raises on a non-zero exit *)
ensure_checkout(w, rc_clone, rc_checkout) ==
    LET w1 == repos_dir(w)
        w2 == [w1 EXCEPT !.checkout = "cloned", !.dirs = @ \cup {"checkout"}]
        w3 == [w2 EXCEPT !.checkout = "pinned"]
    IN IF w1.checkout # "absent"
       THEN [raised |-> FALSE, created |-> FALSE, w |-> w1, launches |-> <<>>]
       ELSE IF rc_clone # 0
       THEN [raised |-> TRUE, created |-> FALSE, w |-> w1, launches |-> <<GitClone>>]
       ELSE IF repo.commit = ""
       THEN [raised |-> FALSE, created |-> TRUE, w |-> w2, launches |-> <<GitClone>>]
       ELSE IF rc_checkout # 0
       THEN [raised |-> TRUE, created |-> FALSE, w |-> w2,
             launches |-> <<GitClone, GitCheckout>>]
       ELSE [raised |-> FALSE, created |-> TRUE, w |-> w3,
             launches |-> <<GitClone, GitCheckout>>]

\* mutant of _stage_discover: a failed checkout is reported as a failed result
_stage_discover_degraded(w, rc_clone, rc_checkout) ==
    LET ec == ensure_checkout(w, rc_clone, rc_checkout)
        details == [repo_path |-> repo_checkout_path,
                    checkout_created |-> ec.created,
                    toolchain |-> _detect_toolchain(tree)]
    IN IF ec.raised
       THEN Returned(StageResult("discover", "failed", details), ec.w, ec.launches)
       ELSE Returned(StageResult("discover", "completed", details), ec.w, ec.launches)

_stage_discover(w, rc_clone, rc_checkout) ==
    LET ec == ensure_checkout(w, rc_clone, rc_checkout)
        details == [repo_path |-> repo_checkout_path,
                    checkout_created |-> ec.created,
                    toolchain |-> _detect_toolchain(tree)]
    IN IF ec.raised
       THEN Raised("CommandError", ec.w, ec.launches)
       ELSE Returned(StageResult("discover", "completed", details), ec.w, ec.launches)

_stage_plan(w) ==
    LET w1 == state_dir(w)
    IN IF stage_output("discover") \notin DOMAIN w1.cache
       THEN Raised("RuntimeError", w1, <<>>)
       ELSE LET toolchain == w1.cache[stage_output("discover")].details.toolchain
                present(name) ==
                    \/ name = "pyproject.toml" /\ toolchain.pyproject
                    \/ name = "requirements.txt" /\ toolchain.requirements
                    \/ name = "environment.yml" /\ toolchain.environment_yml
                plan == [strategy |-> _choose_strategy(toolchain),
                         python_version |-> "3.11",
                         builder_inputs |->
                            [requires_network |-> toolchain.ci_workflows # <<>>,
                             lockfile_sources |->
                                SelectSeq(<<"pyproject.toml", "requirements.txt",
                                            "environment.yml">>, present)],
                         tests |-> [runner |-> "pytest",
                                    markers_exclude |-> repo.markers_exclude]]
            IN Returned(StageResult("plan", "completed", plan), w1, <<>>)

PipFreeze == Cmd(<<"python", "-m", "pip", "freeze">>, <<>>, <<>>)

\* mutant of _stage_build: every install command is run, and a failure is
\* reported only after the last one
_stage_build_runs_all(w, rcs) ==
    LET w1 == state_dir(w)
    IN IF stage_output("plan") \notin DOMAIN w1.cache
       THEN Raised("RuntimeError", w1, <<>>)
       ELSE LET plan_data == w1.cache[stage_output("plan")].details
                w2 == repos_dir(w1)
                install_commands == _build_install_commands(tree)
                bad == {i \in 1..Len(install_commands) : rcs[i] # 0}
                install_logs ==
                    [i \in 1..Len(install_commands) |->
                        [command |-> install_commands[i], returncode |-> rcs[i]]]
                w3 == artifacts_dir(w2)
                w4 == [w3 EXCEPT !.files =
                         Put(@, artifact_path("env_manifest.json"),
                             [python_version |-> "3", apt_packages |-> <<>>])]
            IN IF bad # {}
               THEN Returned(StageResult("build", "failed",
                        [strategy |-> plan_data.strategy,
                         commands |-> install_logs,
                         message |-> "Dependency installation failed."]),
                        w2, install_commands)
               ELSE Returned(StageResult("build", "completed",
                        [strategy |-> plan_data.strategy,
                         base_image |-> "python:3.11-slim",
                         lockfiles |-> plan_data.builder_inputs.lockfile_sources,
                         env_manifest |-> artifact_path("env_manifest.json"),
                         exit_code |-> 0,
                         commands |-> install_logs]), w4,
                        install_commands \o <<PipFreeze>>)

\* rcs[i] is the exit code the i-th install command would give
_stage_build(w, rcs) ==
    LET w1 == state_dir(w)
    IN IF stage_output("plan") \notin DOMAIN w1.cache
       THEN Raised("RuntimeError", w1, <<>>)
       ELSE LET plan_data == w1.cache[stage_output("plan")].details
                w2 == repos_dir(w1)
                install_commands == _build_install_commands(tree)
                bad == {i \in 1..Len(install_commands) : rcs[i] # 0}
                n == IF bad = {} THEN Len(install_commands)
                     ELSE CHOOSE i \in bad : \A j \in bad : i <= j
                install_logs == [i \in 1..n |-> [command |-> install_commands[i],
                                                 returncode |-> rcs[i]]]
                ran == [i \in 1..n |-> install_commands[i]]
                w3 == artifacts_dir(w2)
                w4 == [w3 EXCEPT !.files =
                         Put(@, artifact_path("env_manifest.json"),
                             [python_version |-> "3", apt_packages |-> <<>>])]
            IN IF bad # {}
               THEN Returned(StageResult("build", "failed",
                        [strategy |-> plan_data.strategy,
                         commands |-> install_logs,
                         message |-> "Dependency installation failed."]), w2, ran)
               ELSE Returned(StageResult("build", "completed",
                        [strategy |-> plan_data.strategy,
                         base_image |-> "python:3.11-slim",
                         lockfiles |-> plan_data.builder_inputs.lockfile_sources,
                         env_manifest |-> artifact_path("env_manifest.json"),
                         exit_code |-> 0,
                         commands |-> install_logs]), w4, ran \o <<PipFreeze>>)

(* What the "coverage xml" command can leave at coverage.xml: a report with
   a line-rate (in percent), a report without the attribute, a report whose
   line-rate is not a number, text that is not XML, or the file as it was *)
Reports ==
    { [kind |-> "valid", rate |-> 85], [kind |-> "norate", rate |-> 0],
      [kind |-> "badrate", rate |-> 0], [kind |-> "malformed", rate |-> 0],
      [kind |-> "untouched", rate |-> 0] }

Stderrs == {"", "No data to report."}

\* one run of the Test stage's commands: their exit codes and what they leave
TestRun(rc_collect, rc_test, rc_cov, report, stderr, output) ==
    [rc_collect |-> rc_collect, rc_test |-> rc_test, rc_cov |-> rc_cov,
     report |-> report, stderr |-> stderr, output |-> output]

\* stdout lines of the collection pass
CollectStdout(rc) == IF rc = 0 THEN <<"tests/test_a.py::test_a">> ELSE <<>>

\* lines 406-414: the percentage read from a report that exists; ET.ParseError
\* is caught, a line-rate that is no number raises before this value is used
line_rate_pct(xml) == IF xml.kind = "valid" THEN xml.rate ELSE 0

\* mutant of test_status: the exit code of the collection pass is not looked at
test_status_ignores_collection(rc_collect, rc_test) ==
    IF rc_test = 0 THEN "completed" ELSE "failed"

\* lines 441 and 458-459
test_status(rc_collect, rc_test) ==
    LET status == IF rc_test = 0 THEN "completed" ELSE "failed"
    IN IF rc_collect # 0 THEN "failed" ELSE status

\* lines 450-453 and 461-463: the coverage entry of the details
test_coverage(rc_cov, coverage_pct, coverage_path, stderr) ==
    IF rc_cov # 0
    THEN [line_pct |-> 0, report_path |-> coverage_path, error |-> stderr]
    ELSE [line_pct |-> coverage_pct, report_path |-> coverage_path]

\* lines 384-404: the commands the handler launches, in order
test_commands(marker_expression, coverage_path) ==
    LET filter == IF marker_expression # <<>> THEN <<"-m">> ELSE <<>>
    IN <<Cmd(<<"python", "-m", "pytest", "--collect-only", "-q">> \o filter,
             <<>>, marker_expression),
         Cmd(<<"coverage", "erase">>, <<>>, <<>>),
         Cmd(<<"coverage", "run", "-m", "pytest", "-q", "--maxfail", "1",
               "--durations", "30">> \o filter, <<>>, marker_expression),
         Cmd(<<"coverage", "xml", "-o", coverage_path>>, <<>>, <<>>)>>

_stage_test(w, run) ==
    LET rc_collect == run.rc_collect
        rc_test == run.rc_test
        rc_cov == run.rc_cov
        report == run.report
        stderr == run.stderr
        output == run.output
        w1 == state_dir(w)
    IN IF stage_output("plan") \notin DOMAIN w1.cache
       THEN Raised("RuntimeError", w1, <<>>)
       ELSE
       LET plan_data == w1.cache[stage_output("plan")].details
           marker_expression == _build_marker_expression(plan_data.tests.markers_exclude)
           test_index_path == artifact_path("test_index.json")
           coverage_path == artifact_path("coverage.xml")
           log_path == "test.log.jsonl"
           w2 == logs_dir(artifacts_dir(repos_dir(w1)))
           discovered_nodes == CollectStdout(rc_collect)
           launches == test_commands(marker_expression, coverage_path)
           files1 == Put(w2.files, test_index_path, [repo_id |-> "id"])
           files2 == IF report.kind = "untouched" THEN files1
                     ELSE Put(files1, coverage_path, report)
           parsed == rc_cov = 0 /\ coverage_path \in DOMAIN files2
           xml == files2[coverage_path]
           coverage_pct == IF parsed THEN line_rate_pct(xml) ELSE 0
           summary_counts == _parse_pytest_summary(output)
           selected == summary_counts["passed"] + summary_counts["failed"]
                       + summary_counts["errors"] + summary_counts["skipped"]
                       + summary_counts["xfailed"] + summary_counts["xpassed"]
                       + summary_counts["rerun"]
           failed == summary_counts["failed"] + summary_counts["errors"]
           log_entries ==
               <<[event |-> "collect", returncode |-> rc_collect],
                 [event |-> "run", returncode |-> rc_test]>>
           files3 == Put(files2, log_path, log_entries)
           status == test_status(rc_collect, rc_test)
           coverage == test_coverage(rc_cov, coverage_pct, coverage_path, stderr)
           test_details ==
               [runner |-> "pytest",
                discovered |-> Len(discovered_nodes),
                selected |-> selected,
                passed |-> summary_counts["passed"],
                failed |-> failed,
                skipped |-> summary_counts["skipped"],
                xfailed |-> summary_counts["xfailed"],
                coverage |-> coverage,
                index_path |-> test_index_path,
                logs |-> <<log_path>>]
           details == IF rc_collect # 0
                      THEN test_details @@ [message |-> "Pytest collection failed."]
                      ELSE test_details
       IN IF parsed /\ xml.kind = "badrate"
          THEN Raised("ValueError", [w2 EXCEPT !.files = files2], launches)
          ELSE Returned(StageResult("test", status, details),
                        [w2 EXCEPT !.files = files3], launches)

\* mutant of _stage_package: a Build result without environment manifest is accepted
_stage_package_any_build(w) ==
    LET w1 == state_dir(w)
        manifest_path == artifact_path("repo_image_manifest.json")
    IN IF stage_output("build") \notin DOMAIN w1.cache
          \/ stage_output("test") \notin DOMAIN w1.cache
       THEN Raised("FileNotFoundError", w1, <<>>)
       ELSE LET build_data == w1.cache[stage_output("build")].details
                test_data == w1.cache[stage_output("test")].details
                env_manifest == IF "env_manifest" \in DOMAIN build_data
                                THEN build_data.env_manifest ELSE ""
                manifest ==
                    [repo_id |-> "id",
                     source |-> [commit |-> repo.commit],
                     build |-> build_data,
                     tests |-> test_data,
                     artifacts |-> <<env_manifest,
                                     test_data.index_path,
                                     test_data.coverage.report_path>>
                                   \o test_data.logs]
                w2 == artifacts_dir(w1)
                w3 == [w2 EXCEPT !.files = Put(@, manifest_path, manifest)]
            IN Returned(StageResult("package", "completed",
                           [manifest_path |-> manifest_path,
                            artifact_count |-> Len(manifest.artifacts)]),
                        w3, <<>>)

\* mutant of _stage_package: the manifest file is created before the caches are read
_stage_package_eager(w) ==
    LET w1 == artifacts_dir(state_dir(w))
        manifest_path == artifact_path("repo_image_manifest.json")
        w2 == [w1 EXCEPT !.files = Put(@, manifest_path, [repo_id |-> "id"])]
    IN IF stage_output("build") \notin DOMAIN w1.cache
          \/ stage_output("test") \notin DOMAIN w1.cache
       THEN Raised("FileNotFoundError", w2, <<>>)
       ELSE LET build_data == w1.cache[stage_output("build")].details
                test_data == w1.cache[stage_output("test")].details
            IN IF "env_manifest" \notin DOMAIN build_data
               THEN Raised("KeyError", w2, <<>>)
               ELSE LET manifest ==
                            [repo_id |-> "id",
                             source |-> [commit |-> repo.commit],
                             build |-> build_data,
                             tests |-> test_data,
                             artifacts |-> <<build_data.env_manifest,
                                             test_data.index_path,
                                             test_data.coverage.report_path>>
                                           \o test_data.logs]
                        w3 == [w1 EXCEPT !.files = Put(@, manifest_path, manifest)]
                    IN Returned(StageResult("package", "completed",
                                   [manifest_path |-> manifest_path,
                                    artifact_count |-> Len(manifest.artifacts)]),
                                w3, <<>>)

_stage_package(w) ==
    LET w1 == state_dir(w)
        manifest_path == artifact_path("repo_image_manifest.json")
    IN IF stage_output("build") \notin DOMAIN w1.cache
          \/ stage_output("test") \notin DOMAIN w1.cache
       THEN Raised("FileNotFoundError", w1, <<>>)
       ELSE LET build_data == w1.cache[stage_output("build")].details
                test_data == w1.cache[stage_output("test")].details
            IN IF "env_manifest" \notin DOMAIN build_data
               THEN Raised("KeyError", w1, <<>>)
               ELSE LET manifest ==
                            [repo_id |-> "id",
                             source |-> [commit |-> repo.commit],
                             build |-> build_data,
                             tests |-> test_data,
                             artifacts |-> <<build_data.env_manifest,
                                             test_data.index_path,
                                             test_data.coverage.report_path>>
                                           \o test_data.logs]
                        w2 == artifacts_dir(w1)
                        w3 == [w2 EXCEPT !.files = Put(@, manifest_path, manifest)]
                    IN Returned(StageResult("package", "completed",
                                   [manifest_path |-> manifest_path,
                                    artifact_count |-> Len(manifest.artifacts)]),
                                w3, <<>>)

\* mutant of _stage_publish: the manifest is not checked
_stage_publish_unchecked(w) ==
    Returned(StageResult("publish", "pending",
                [manifest_path |-> artifact_path("repo_image_manifest.json"),
                 image_tag |-> repo.commit,
                 pushed |-> FALSE]), artifacts_dir(w), <<>>)

\* mutant of _stage_publish: the image is reported as pushed
_stage_publish_completed(w) ==
    LET w1 == artifacts_dir(w)
        manifest_path == artifact_path("repo_image_manifest.json")
    IN IF manifest_path \notin DOMAIN w1.files
       THEN Raised("RuntimeError", w1, <<>>)
       ELSE Returned(StageResult("publish", "completed",
                        [manifest_path |-> manifest_path,
                         image_tag |-> repo.commit,
                         pushed |-> TRUE]), w1, <<>>)

_stage_publish(w) ==
    LET w1 == artifacts_dir(w)
        manifest_path == artifact_path("repo_image_manifest.json")
    IN IF manifest_path \notin DOMAIN w1.files
       THEN Raised("RuntimeError", w1, <<>>)
       ELSE Returned(StageResult("publish", "pending",
                        [manifest_path |-> manifest_path,
                         image_tag |-> repo.commit,
                         pushed |-> FALSE]), w1, <<>>)

----------------------------------------------------------------------------
(* The engine: RepoPipeline.run_stage and run_until, per caller *)

NoObs == [handlers |-> <<>>, launches |-> <<>>, written |-> <<>>]

NoCall == [op |-> "none", target |-> "", stage |-> ""]

\* summary of a finished call
Summary(c, kind, value, error, o) ==
    [op |-> c.op, target |-> c.target, stage |-> c.stage, kind |-> kind,
     value |-> value, error |-> error,
     handlers |-> o.handlers, launches |-> o.launches, written |-> o.written]

NoSummary == Summary(NoCall, "none", NoResult, "", NoObs)

Quiet == \A q \in Procs : pc[q] = "idle"

\* no helper function is being called on its own
NoHelper == [fn |-> "", arg |-> <<>>, done |-> FALSE, ret |-> <<>>]

Init ==
    /\ \E project \in Projects : repo = project.repo /\ tree = project.tree
    /\ checkout = "absent"
    /\ dirs = {"workspace"}
    /\ cache = NoFiles
    /\ files = NoFiles
    /\ pc = [p \in Procs |-> "idle"]
    /\ call = [p \in Procs |-> NoCall]
    /\ result = [p \in Procs |-> NoResult]
    /\ obs = [p \in Procs |-> NoObs]
    /\ last = NoSummary
    /\ prev = NoSummary
    /\ before = Workspace("absent", {"workspace"}, NoFiles, NoFiles)
    /\ helper = NoHelper

\* a caller starts op on target; the loop of run_until starts at the first stage
Start(p, op, target, first) ==
    /\ pc[p] = "idle"
    /\ pc' = [pc EXCEPT ![p] = "check"]
    /\ call' = [call EXCEPT ![p] = [op |-> op, target |-> target, stage |-> first]]
    /\ obs' = [obs EXCEPT ![p] = NoObs]
    /\ prev' = IF op = "run_stage" /\ last.op = "run_stage" /\ last.target = target
                  /\ last.kind = "value"
               THEN last ELSE NoSummary
    /\ last' = Summary([op |-> op, target |-> target, stage |-> first],
                       "running", NoResult, "", NoObs)
    /\ before' = ws
    /\ UNCHANGED <<repo, tree, checkout, dirs, cache, files, result, helper>>

CallRunStage(p, stage) == Start(p, "run_stage", stage, stage)

\* mutant of CallRunUntil: the loop starts at the target stage
CallRunUntil_from_target(p, target_stage) ==
    Start(p, "run_until", target_stage, target_stage)

CallRunUntil(p, target_stage) == Start(p, "run_until", target_stage, ordered[1])

\* the call of p ends: it returned value, or raised error
Finish(p, kind, value, error, o) ==
    /\ pc' = [pc EXCEPT ![p] = "idle"]
    /\ call' = [call EXCEPT ![p] = NoCall]
    /\ obs' = [obs EXCEPT ![p] = NoObs]
    /\ last' = Summary(call[p], kind, value, error, o)
    /\ UNCHANGED <<prev, before>>

\* run_stage returns r: run_until goes on with the next stage unless this was its target
Return(p, r, o) ==
    IF call[p].op = "run_until" /\ call[p].stage # call[p].target
    THEN /\ pc' = [pc EXCEPT ![p] = "check"]
         /\ call' = [call EXCEPT ![p].stage = ordered[StageIdx(@) + 1]]
         /\ obs' = [obs EXCEPT ![p] = o]
         /\ UNCHANGED <<last, prev, before>>
    ELSE Finish(p, "value", r, "", o)

\* mutant of Check: the cache is never consulted
Check_always_runs(p) ==
    /\ pc[p] = "check"
    /\ dirs' = dirs \cup {"state"}
    /\ pc' = [pc EXCEPT ![p] = "handler"]
    /\ UNCHANGED <<call, obs, last, prev, before>>
    /\ UNCHANGED <<repo, tree, checkout, cache, files, result, helper>>

\* mutant of Check: a cached result with status failed is run again
Check_retries_failed(p) ==
    /\ pc[p] = "check"
    /\ dirs' = dirs \cup {"state"}
    /\ IF /\ stage_output(call[p].stage) \in DOMAIN cache
          /\ cache[stage_output(call[p].stage)].status # "failed"
       THEN Return(p, from_dict(cache[stage_output(call[p].stage)]), obs[p])
       ELSE /\ pc' = [pc EXCEPT ![p] = "handler"]
            /\ UNCHANGED <<call, obs, last, prev, before>>
    /\ UNCHANGED <<repo, tree, checkout, cache, files, result, helper>>

\* run_stage, lines 545-548: the cache check
Check(p) ==
    /\ pc[p] = "check"
    /\ dirs' = dirs \cup {"state"}
    /\ IF stage_output(call[p].stage) \in DOMAIN cache
       THEN Return(p, from_dict(cache[stage_output(call[p].stage)]), obs[p])
       ELSE /\ pc' = [pc EXCEPT ![p] = "handler"]
            /\ UNCHANGED <<call, obs, last, prev, before>>
    /\ UNCHANGED <<repo, tree, checkout, cache, files, result, helper>>

\* mutant of Handled: an error is stored as a failed result before it is raised again
Handled_stores_error(p, out) ==
    LET o == [obs[p] EXCEPT !.handlers = Append(@, call[p].stage),
                            !.launches = @ \o out.launches]
    IN /\ checkout' = out.w.checkout
       /\ dirs' = out.w.dirs
       /\ files' = out.w.files
       /\ IF out.raised
          THEN /\ Finish(p, "raise", NoResult, out.error, o)
               /\ cache' = Put(cache, stage_output(call[p].stage),
                               to_dict(StageResult(call[p].stage, "failed",
                                                   [message |-> out.error])))
               /\ UNCHANGED result
          ELSE /\ pc' = [pc EXCEPT ![p] = "write"]
               /\ result' = [result EXCEPT ![p] = out.result]
               /\ obs' = [obs EXCEPT ![p] = o]
               /\ UNCHANGED <<call, last, prev, before, cache>>
       /\ UNCHANGED <<repo, tree, helper>>

\* run_stage, line 550: the handler ran with outcome out
Handled(p, out) ==
    LET o == [obs[p] EXCEPT !.handlers = Append(@, call[p].stage),
                            !.launches = @ \o out.launches]
    IN /\ checkout' = out.w.checkout
       /\ dirs' = out.w.dirs
       /\ files' = out.w.files
       /\ IF out.raised
          THEN /\ Finish(p, "raise", NoResult, out.error, o)
               /\ UNCHANGED result
          ELSE /\ pc' = [pc EXCEPT ![p] = "write"]
               /\ result' = [result EXCEPT ![p] = out.result]
               /\ obs' = [obs EXCEPT ![p] = o]
               /\ UNCHANGED <<call, last, prev, before>>
       /\ UNCHANGED <<repo, tree, cache, helper>>

AtHandler(p, stage) == pc[p] = "handler" /\ call[p].stage = stage

StageDiscover(p, rcs) ==
    /\ AtHandler(p, "discover")
    /\ \E rc_clone, rc_checkout \in rcs :
          Handled(p, _stage_discover(ws, rc_clone, rc_checkout))

StagePlan(p) ==
    /\ AtHandler(p, "plan")
    /\ Handled(p, _stage_plan(ws))

StageBuild(p, codes) ==
    /\ AtHandler(p, "build")
    /\ \E rcs \in [1..Len(_build_install_commands(tree)) -> codes] :
          Handled(p, _stage_build(ws, rcs))

StageTest(p, runs) ==
    /\ AtHandler(p, "test")
    /\ \E run \in runs : Handled(p, _stage_test(ws, run))

StagePackage(p) ==
    /\ AtHandler(p, "package")
    /\ Handled(p, _stage_package(ws))

StagePublish(p) ==
    /\ AtHandler(p, "publish")
    /\ Handled(p, _stage_publish(ws))

\* run_stage, lines 551-552: dump_json of the result, then return it
Write(p) ==
    /\ pc[p] = "write"
    /\ cache' = Put(cache, stage_output(call[p].stage), to_dict(result[p]))
    /\ dirs' = dirs \cup {"state"}
    /\ result' = [result EXCEPT ![p] = NoResult]
    /\ Return(p, result[p], [obs[p] EXCEPT !.written = Append(@, call[p].stage)])
    /\ UNCHANGED <<repo, tree, checkout, files, helper>>

\* the calling process is terminated in the middle of a call
Abandon(p) ==
    /\ pc[p] # "idle"
    /\ result' = [result EXCEPT ![p] = NoResult]
    /\ Finish(p, "abandoned", NoResult, "", obs[p])
    /\ UNCHANGED <<repo, tree, checkout, dirs, cache, files, helper>>

\* mutant of status: a stage without cache file is reported as pending
status_with_placeholders(w) ==
    [i \in 1..Len(ordered) |->
        [stage |-> ordered[i],
         status |-> IF stage_output(ordered[i]) \in DOMAIN w.cache
                    THEN from_dict(w.cache[stage_output(ordered[i])]).status
                    ELSE "pending"]]

\* RepoPipeline.status: the entries of the returned dict, in insertion order
status(w) ==
    LET exists(stage) == stage_output(stage) \in DOMAIN w.cache
        stages == SelectSeq(ordered, exists)
    IN [i \in 1..Len(stages) |->
           [stage |-> stages[i],
            status |-> IF "status" \in DOMAIN w.cache[stage_output(stages[i])]
                       THEN w.cache[stage_output(stages[i])].status
                       ELSE "unknown"]]

\* a caller asks for the status of the stages (cmd_status)
Status(p) ==
    /\ pc[p] = "idle"
    /\ dirs' = dirs \cup {"state"}
    /\ last' = [Summary([op |-> "status", target |-> "", stage |-> ""],
                        "value", NoResult, "", NoObs) EXCEPT !.value = status(ws)]
    /\ prev' = NoSummary
    /\ before' = ws
    /\ UNCHANGED <<repo, tree, checkout, cache, files, pc, call, result, obs, helper>>

----------------------------------------------------------------------------
(* Specifications *)

TheCaller == CHOOSE p \in Procs : TRUE

Passing ==
    <<Line(TRUE, <<Chunk(2, "passed"), Chunk(1, "skipped")>>, TRUE)>>

Failing ==
    <<Line(FALSE, <<Chunk(1, "failed"), Chunk(1, "passed"), Chunk(1, "error")>>, TRUE),
      Line(FALSE, <<>>, FALSE)>>

Valid == [kind |-> "valid", rate |-> 85]

Untouched == [kind |-> "untouched", rate |-> 0]

\* every run of the Test stage's commands
AllTestRuns ==
    { TestRun(rc_collect, rc_test, rc_cov, report, stderr, output) :
        rc_collect \in ReturnCodes, rc_test \in ReturnCodes, rc_cov \in ReturnCodes,
        report \in Reports, stderr \in Stderrs, output \in {Passing, Failing} }

\* the runs the engine is explored with: a passing run, a failing run, a failed
\* collection, a failed coverage report and a report that cannot be read
TestRuns ==
    { TestRun(0, 0, 0, Valid, "", Passing),
      TestRun(0, MaxReturnCode, 0, Valid, "", Failing),
      TestRun(MaxReturnCode, MaxReturnCode, 0, Valid, "", Failing),
      TestRun(0, 0, MaxReturnCode, Untouched, "No data to report.", Passing),
      TestRun(0, 0, 0, [kind |-> "badrate", rate |-> 0], "", Passing) }

\* Exclusive use of the workspace: one caller process at a time (successive
\* command-line invocations are the same caller to the workspace).  The
\* caller may call run_stage and run_until on any stage, in any order.
Next ==
    \/ Quiet /\ \E s \in StageNames : CallRunStage(TheCaller, s)
    \/ Quiet /\ \E s \in StageNames : CallRunUntil(TheCaller, s)
    \/ Check(TheCaller)
    \/ StageDiscover(TheCaller, ReturnCodes)
    \/ StagePlan(TheCaller)
    \/ StageBuild(TheCaller, ReturnCodes)
    \/ StageTest(TheCaller, TestRuns)
    \/ StagePackage(TheCaller)
    \/ StagePublish(TheCaller)
    \/ Write(TheCaller)
    \/ Abandon(TheCaller)
    \/ Quiet /\ Status(TheCaller)

Spec == Init /\ [][Next]_vars

\* The command line: every call is a run_until (_run_to_stage) or a status query.
NextUntil ==
    \/ Quiet /\ \E s \in StageNames : CallRunUntil(TheCaller, s)
    \/ Check(TheCaller)
    \/ StageDiscover(TheCaller, ReturnCodes)
    \/ StagePlan(TheCaller)
    \/ StageBuild(TheCaller, ReturnCodes)
    \/ StageTest(TheCaller, TestRuns)
    \/ StagePackage(TheCaller)
    \/ StagePublish(TheCaller)
    \/ Write(TheCaller)
    \/ Abandon(TheCaller)
    \/ Quiet /\ Status(TheCaller)

SpecUntil == Init /\ [][NextUntil]_vars

\* Shared use of the workspace: the callers run at the same time, each step of
\* one interleaved with the steps of the others; nothing in run_stage makes a
\* caller wait for another.  The install command succeeds or fails.
NextRace ==
    \E p \in Procs :
        \/ CallRunStage(p, "build")
        \/ CallRunUntil(p, "build")
        \/ Check(p)
        \/ StageDiscover(p, {0})
        \/ StagePlan(p)
        \/ StageBuild(p, {0, MaxReturnCode})
        \/ Write(p)

\* the catalog entry without revision, whose Build runs one install command
InitRace == Init /\ repo.commit = ""

SpecRace == InitRace /\ [][NextRace]_vars

\* The Test stage under every run of its commands: the caller brings the
\* pipeline to Test (clone and installs succeeding) and runs it.
NextTest ==
    \/ Quiet /\ CallRunStage(TheCaller, "test")
    \/ Quiet /\ CallRunUntil(TheCaller, "test")
    \/ Check(TheCaller)
    \/ StageDiscover(TheCaller, {0})
    \/ StagePlan(TheCaller)
    \/ StageBuild(TheCaller, {0})
    \/ StageTest(TheCaller, AllTestRuns)
    \/ Write(TheCaller)
    \/ Abandon(TheCaller)

SpecTest == Init /\ [][NextTest]_vars

\* excluded-marker lists of catalog entries; the catalog loader accepts any strings
MarkerLists == SeqsUpTo({"slow", "network", ""}, MaxMarkers)

\* The marker filter: catalog entries with every excluded-marker list, run
\* through the Test stage.
InitMarkers ==
    /\ repo \in {RepoSpec("", markers) : markers \in MarkerLists}
    /\ tree = Tree({}, {}, FALSE, {}, <<>>)
    /\ checkout = "absent"
    /\ dirs = {"workspace"}
    /\ cache = NoFiles
    /\ files = NoFiles
    /\ pc = [p \in Procs |-> "idle"]
    /\ call = [p \in Procs |-> NoCall]
    /\ result = [p \in Procs |-> NoResult]
    /\ obs = [p \in Procs |-> NoObs]
    /\ last = NoSummary
    /\ prev = NoSummary
    /\ before = Workspace("absent", {"workspace"}, NoFiles, NoFiles)
    /\ helper = NoHelper

NextMarkers ==
    \/ Quiet /\ CallRunUntil(TheCaller, "test")
    \/ Check(TheCaller)
    \/ StageDiscover(TheCaller, {0})
    \/ StagePlan(TheCaller)
    \/ StageBuild(TheCaller, {0})
    \/ StageTest(TheCaller, TestRuns)
    \/ Write(TheCaller)

SpecMarkers == InitMarkers /\ [][NextMarkers]_vars

----------------------------------------------------------------------------
(* The pure helper functions called on their own, as the unit tests call
   them: the argument is drawn when the call is made, the call computes the
   return value. *)

\* the probes _detect_toolchain can return: tool.poetry is read from pyproject.toml
Toolchains ==
    { tc \in [pyproject : BOOLEAN, poetry : BOOLEAN, requirements : BOOLEAN,
              environment_yml : BOOLEAN,
              ci_workflows : {<<>>, <<".github/workflows/ci.yml">>}] :
        tc.poetry => tc.pyproject }

\* labels of summary chunks: count names, their variants, another word
Labels ==
    {"passed", "failed", "xpassed", "deselected", "error", "warning", "reruns",
     "failures", "failure", "pass", "PASSED", "Failure", "subtests"}

\* a chunk "<count> <label>", or a chunk of another form
Chunks == {Chunk(n, l) : n \in 1..MaxCount, l \in Labels} \cup {Chunk(-1, "")}

\* outputs of one line, boxed or bare, that ends in " in <time>"
OneLineOutputs ==
    { <<Line(boxed, chunks, TRUE)>> :
        boxed \in BOOLEAN, chunks \in SeqsUpTo(Chunks, MaxChunks) }

\* the lines of longer outputs: blank lines, text, banners and bare summaries
ShortLines ==
    { Line(boxed, chunks, tail) :
        boxed \in BOOLEAN, tail \in BOOLEAN,
        chunks \in SeqsUpTo({Chunk(1, "passed"), Chunk(2, "failed"), Chunk(-1, "")}, 1) }

\* the outputs of the unit tests: a banner, a banner with failures, a quiet summary
ExampleOutputs ==
    { <<Line(TRUE, <<Chunk(5, "passed"), Chunk(2, "skipped"), Chunk(1, "xfailed"),
                     Chunk(1, "warning")>>, TRUE)>>,
      <<Line(TRUE, <<Chunk(3, "passed"), Chunk(1, "failed"), Chunk(2, "errors")>>, TRUE)>>,
      <<Line(FALSE, <<Chunk(5, "passed"), Chunk(1, "skipped"), Chunk(2, "warnings")>>,
             TRUE)>> }

Outputs == {<<>>} \cup ExampleOutputs \cup OneLineOutputs \cup [1..2 -> ShortLines]

\* checkouts: the files present and the groups pyproject.toml declares
Trees ==
    { Tree(fs, optional, poetry, groups, <<>>) :
        fs \in SUBSET {"requirements.txt", "requirements-dev.txt", "requirements/ci.txt",
                       "setup.py", "pyproject.toml"},
        optional \in SUBSET {"test", "dev", "docs"},
        poetry \in BOOLEAN,
        groups \in SUBSET {"ci", "test"} }

HelperCall(fn, arg) == [fn |-> fn, arg |-> arg, done |-> FALSE, ret |-> <<>>]

HelperCalls ==
    {HelperCall("_choose_strategy", tc) : tc \in Toolchains}
    \cup {HelperCall("_parse_pytest_summary", output) : output \in Outputs}
    \cup {HelperCall("_build_install_commands", t) : t \in Trees}

InitHelpers ==
    /\ repo = RepoSpec("", <<>>)
    /\ tree = Tree({}, {}, FALSE, {}, <<>>)
    /\ checkout = "absent"
    /\ dirs = {"workspace"}
    /\ cache = NoFiles
    /\ files = NoFiles
    /\ pc = [p \in Procs |-> "idle"]
    /\ call = [p \in Procs |-> NoCall]
    /\ result = [p \in Procs |-> NoResult]
    /\ obs = [p \in Procs |-> NoObs]
    /\ last = NoSummary
    /\ prev = NoSummary
    /\ before = Workspace("absent", {"workspace"}, NoFiles, NoFiles)
    /\ helper \in HelperCalls

\* the helper returns ret; nothing of the workspace or the engine changes
HelperReturns(fn, ret) ==
    /\ helper.fn = fn
    /\ ~helper.done
    /\ helper' = [helper EXCEPT !.done = TRUE, !.ret = ret]
    /\ UNCHANGED <<repo, tree, checkout, dirs, cache, files, pc, call, result, obs,
                   last, prev, before>>

ChooseStrategy == HelperReturns("_choose_strategy", _choose_strategy(helper.arg))

ParsePytestSummary ==
    HelperReturns("_parse_pytest_summary", _parse_pytest_summary(helper.arg))

BuildInstallCommands ==
    HelperReturns("_build_install_commands", _build_install_commands(helper.arg))

NextHelpers ==
    \/ ChooseStrategy
    \/ ParsePytestSummary
    \/ BuildInstallCommands

SpecHelpers == InitHelpers /\ [][NextHelpers]_vars

\* the call of helper fn has returned
HelperReturned(fn) == helper.fn = fn /\ helper.done

----------------------------------------------------------------------------
(* Properties *)

Range(seq) == {seq[i] : i \in 1..Len(seq)}

Ascending(stages) ==
    \A i, j \in 1..Len(stages) : i < j => StageIdx(stages[i]) < StageIdx(stages[j])

\* the call observed by `last`: its handlers, launches and cache writes so far
Seen == IF last.kind = "running" THEN obs[TheCaller] ELSE last

Ended == last.kind \in {"value", "raise"}

\* the stage whose handler launches a command
StageOfCmd(c) ==
    IF c.argv[1] = "git" THEN "discover"
    ELSE IF Len(c.argv) >= 3 /\ c.argv[3] = "pip" THEN "build"
    ELSE "test"

LaunchedBy(stage, launches) ==
    LET mine(c) == StageOfCmd(c) = stage IN SelectSeq(launches, mine)

\* the first stage of the fixed order with no cache file in ch, "" when all have one
FirstMissing(ch) ==
    LET missing == {i \in 1..Len(ordered) : stage_output(ordered[i]) \notin DOMAIN ch}
    IN IF missing = {} THEN ""
       ELSE ordered[CHOOSE i \in missing : \A j \in missing : i <= j]

(* C1: when run_stage(S) is called twice in succession and the first call
   returned a StageResult, the second call returns the same StageResult,
   invokes no handler, launches no external process, writes no cache file and
   leaves the cache files and the rest of the workspace as they were. *)
C1_RunStageIdempotent ==
    (prev.kind = "value" /\ last.kind = "value") =>
        /\ last.value = prev.value
        /\ last.handlers = <<>>
        /\ last.launches = <<>>
        /\ last.written = <<>>
        /\ ws = before

\* a failed Build result returned a second time
C1_Witness ==
    /\ prev.kind = "value" /\ last.kind = "value"
    /\ last.target = "build" /\ last.value.status = "failed"
    /\ prev.launches # <<>>

(* C2: a run_until(Test) call writes cache files in the fixed stage order;
   it writes the Test cache only when the Build cache exists; when it
   returns, the caches of Discover, Plan, Build and Test all exist; and from
   a workspace without cache files it creates exactly these four, in that
   order. *)
C2_RunUntilTestOrder ==
    (last.op = "run_until" /\ last.target = "test") =>
        /\ Ascending(Seen.written)
        /\ "test" \in Range(Seen.written) => stage_output("build") \in DOMAIN cache
        /\ last.kind = "value" =>
              /\ {"discover", "plan", "build", "test"} \subseteq DOMAIN cache
              /\ DOMAIN before.cache = {} =>
                    last.written = <<"discover", "plan", "build", "test">>

C2_Witness ==
    /\ last.op = "run_until" /\ last.target = "test" /\ last.kind = "value"
    /\ last.written = <<"discover", "plan", "build", "test">>

\* the cache files a stage's handler reads before it does anything else
Requires(stage) ==
    CASE stage = "plan" -> {"discover"}
      [] stage = "build" -> {"plan"}
      [] stage = "test" -> {"plan"}
      [] stage = "package" -> {"build", "test"}
      [] OTHER -> {}

Predecessor(stage) == ordered[StageIdx(stage) - 1]

ManifestFile == artifact_path("repo_image_manifest.json")

\* a run_stage call that reached the handler of its stage and ended
RanHandler == last.op = "run_stage" /\ Ended /\ last.handlers # <<>>

(* C3 as claimed: for every stage other than Discover, a run_stage call that
   invokes the stage's handler while the cache file of the immediate
   predecessor does not exist raises. *)
C3_Original ==
    (RanHandler /\ last.target # "discover"
       /\ stage_output(Predecessor(last.target)) \notin DOMAIN before.cache)
    => last.kind = "raise"

(* C3: each handler checks only the files it reads.  run_stage raises and
   writes no cache file for Plan without the Discover cache, for Build and
   for Test without the Plan cache, for Package without the Build or the Test
   cache, and for Publish without the Package manifest artifact.  Test with
   the Plan cache but no Build cache raises no precondition error, and
   Publish with the manifest but no Package cache returns its result. *)
C3_HandlerPreconditions ==
    RanHandler =>
        /\ ~(Requires(last.target) \subseteq DOMAIN before.cache) =>
              /\ last.kind = "raise"
              /\ last.error \in {"RuntimeError", "FileNotFoundError"}
              /\ stage_output(last.target) \notin DOMAIN cache
        /\ (last.target = "publish" /\ ManifestFile \notin DOMAIN before.files) =>
              /\ last.kind = "raise"
              /\ last.error = "RuntimeError"
              /\ stage_output(last.target) \notin DOMAIN cache
        /\ (last.target = "test" /\ stage_output("plan") \in DOMAIN before.cache) =>
              last.error # "RuntimeError"
        /\ (last.target = "publish" /\ ManifestFile \in DOMAIN before.files) =>
              last.kind = "value"

\* Test ran and returned with the Plan cache but without a Build cache
C3_Witness ==
    /\ RanHandler /\ last.target = "test" /\ last.kind = "value"
    /\ stage_output("plan") \in DOMAIN before.cache
    /\ stage_output("build") \notin DOMAIN before.cache

(* C4: when a handler raises during run_until, the call ends with that error
   at the raising stage S: S was the last handler invoked, no cache file was
   written for S, and every cache file that existed before the call or was
   written earlier in it is still there with the same content. *)
C4_RunUntilAbort ==
    (last.op = "run_until" /\ last.kind = "raise") =>
        /\ last.handlers # <<>>
        /\ last.handlers[Len(last.handlers)] = last.stage
        /\ \A i \in 1..Len(last.handlers) :
              StageIdx(last.handlers[i]) <= StageIdx(last.stage)
        /\ last.stage \notin Range(last.written)
        /\ stage_output(last.stage) \notin DOMAIN cache
        /\ \A s \in DOMAIN before.cache : s \in DOMAIN cache /\ cache[s] = before.cache[s]
        /\ \A s \in Range(last.written) :
              /\ stage_output(s) \in DOMAIN cache
              /\ StageIdx(s) < StageIdx(last.stage)

\* Package raised on a failed Build after this run wrote earlier caches
C4_Witness ==
    /\ last.op = "run_until" /\ last.kind = "raise" /\ last.stage = "package"
    /\ last.written # <<>>
    /\ DOMAIN before.cache # {}

(* C5: every run_until call, in particular one that follows an aborted or
   abandoned call, invokes no handler of a stage that had a cache file when
   the call started, and the first handler it invokes is that of the first
   stage in the fixed order without a cache file. *)
C5_SafeResume ==
    (last.op = "run_until") =>
        /\ \A i \in 1..Len(Seen.handlers) :
              stage_output(Seen.handlers[i]) \notin DOMAIN before.cache
        /\ Seen.handlers # <<>> => Seen.handlers[1] = FirstMissing(before.cache)

\* a resumed run: the manifest without a Package cache is left by a call that
\* was abandoned between the Package handler and its cache write
C5_Witness ==
    /\ last.op = "run_until" /\ last.kind = "value"
    /\ ManifestFile \in DOMAIN before.files
    /\ stage_output("package") \notin DOMAIN before.cache
    /\ last.handlers = <<"package", "publish">>

(* C6: once a failed Build or Test result is in the cache, every later call
   leaves that cache file as it is, does not invoke the stage's handler,
   launches none of its commands, and a call that ends at that stage returns
   the stored failed result; no call invokes a handler twice. *)
C6_FailedIsCached ==
    /\ \A s \in {"build", "test"} :
          (last.kind # "none" /\ stage_output(s) \in DOMAIN before.cache
             /\ before.cache[stage_output(s)].status = "failed") =>
             /\ stage_output(s) \in DOMAIN cache
             /\ cache[stage_output(s)] = before.cache[stage_output(s)]
             /\ s \notin Range(Seen.handlers)
             /\ LaunchedBy(s, Seen.launches) = <<>>
             /\ (last.kind = "value" /\ last.stage = s) =>
                   last.value = from_dict(before.cache[stage_output(s)])
    /\ \A i, j \in 1..Len(Seen.handlers) :
          i # j => Seen.handlers[i] # Seen.handlers[j]

\* run_until(Test) returns the failed Test result stored by an earlier call
C6_Witness ==
    /\ last.op = "run_until" /\ last.target = "test" /\ last.kind = "value"
    /\ stage_output("test") \in DOMAIN before.cache
    /\ last.value.status = "failed"

\* the handler of stage returned to run_stage, which has not yet written the cache
HandlerReturned(p, stage) == pc[p] = "write" /\ call[p].stage = stage

EnvManifestFile == artifact_path("env_manifest.json")

(* C7: when the Build handler returns, its result is failed or completed.
   If failed, the command log has k >= 1 entries, the first k synthesized
   commands in order, of which only the k-th exited non-zero; exactly these k
   commands were launched (none after the failing one, no package freeze)
   and no environment manifest was written.  If completed, the log holds every
   synthesized command, each with exit code 0, and the handler launched them
   and the package freeze and wrote the environment manifest. *)
C7_BuildFailurePropagation ==
    \A p \in Procs : HandlerReturned(p, "build") =>
        LET r == result[p]
            log == r.details.commands
            cmds == _build_install_commands(tree)
            k == Len(log)
            launched == LaunchedBy("build", obs[p].launches)
        IN /\ r.status \in {"failed", "completed"}
           /\ k >= 1 /\ k <= Len(cmds)
           /\ \A i \in 1..k : log[i].command = cmds[i]
           /\ \A i \in 1..(k - 1) : log[i].returncode = 0
           /\ r.status = "failed" =>
                 /\ log[k].returncode # 0
                 /\ launched = [i \in 1..k |-> cmds[i]]
                 /\ (EnvManifestFile \in DOMAIN files) =
                       (EnvManifestFile \in DOMAIN before.files)
                 /\ "env_manifest" \notin DOMAIN r.details
           /\ r.status = "completed" =>
                 /\ k = Len(cmds)
                 /\ log[k].returncode = 0
                 /\ launched = cmds \o <<PipFreeze>>
                 /\ EnvManifestFile \in DOMAIN files

\* the second of three install commands failed
C7_Witness ==
    \E p \in Procs :
        /\ HandlerReturned(p, "build")
        /\ result[p].status = "failed"
        /\ Len(result[p].details.commands) = 2
        /\ Len(_build_install_commands(tree)) = 3

TestLogFile == "test.log.jsonl"

CoverageFile == artifact_path("coverage.xml")

\* the exit codes of the collection pass and of the instrumented run, as the
\* handler that just returned logged them
CollectCode == files[TestLogFile][1].returncode

RunCode == files[TestLogFile][2].returncode

(* C8: when the Test handler returns, the status is failed if and only if
   the collection pass or the instrumented run exited non-zero, and completed
   otherwise, whatever the coverage report step and the parsed counts were. *)
C8_TestStatusRule ==
    \A p \in Procs : HandlerReturned(p, "test") =>
        /\ result[p].status \in {"failed", "completed"}
        /\ (result[p].status = "failed") = (CollectCode # 0 \/ RunCode # 0)

\* completed although the coverage report step failed and the summary counts failures
C8_Witness ==
    \E p \in Procs :
        /\ HandlerReturned(p, "test")
        /\ result[p].status = "completed"
        /\ "error" \in DOMAIN result[p].details.coverage
        /\ result[p].details.failed > 0

(* C9 as claimed: when the collection pass exits non-zero, the Test handler
   returns status failed with the collection-failed message and has launched
   nothing but the collection command. *)
C9_CollectionFailureStops ==
    \A p \in Procs : (HandlerReturned(p, "test") /\ CollectCode # 0) =>
        /\ result[p].status = "failed"
        /\ "message" \in DOMAIN result[p].details
        /\ Len(LaunchedBy("test", obs[p].launches)) = 1

(* C10 as claimed: when the Test handler returns and the coverage report is
   not well-formed or absent, the result has line_pct 0 and a coverage error
   field, and its status is completed if collection and run exited zero. *)
C10_CoverageDegradation ==
    \A p \in Procs :
        (/\ HandlerReturned(p, "test")
         /\ \/ CoverageFile \notin DOMAIN files
            \/ files[CoverageFile].kind = "malformed") =>
        /\ result[p].details.coverage.line_pct = 0
        /\ "error" \in DOMAIN result[p].details.coverage
        /\ (CollectCode = 0 /\ RunCode = 0) => result[p].status = "completed"

(* C11: for every probe, _choose_strategy returns the label of the first
   applicable rule in the order: workflow list non-empty -> "activ", poetry
   section present -> "poetry", environment.yml present -> "conda",
   requirements.txt present -> "pip", otherwise "custom". *)
C11_StrategyPrecedence ==
    HelperReturned("_choose_strategy") =>
        LET tc == helper.arg
            applies == <<tc.ci_workflows # <<>>, tc.poetry, tc.environment_yml,
                         tc.requirements, TRUE>>
            label == <<"activ", "poetry", "conda", "pip", "custom">>
            first == CHOOSE i \in 1..5 : applies[i] /\ \A j \in 1..(i - 1) : ~applies[j]
        IN helper.ret = label[first]

\* workflows and a poetry section are both present, and the answer is "activ"
C11_Witness ==
    /\ HelperReturned("_choose_strategy")
    /\ helper.arg.ci_workflows # <<>> /\ helper.arg.poetry
    /\ helper.ret = "activ"

\* the lower-cased labels of the chunks "<count> <label>" of a line
LabelsOf(line) ==
    {lower(line.chunks[i].label) : i \in {j \in 1..Len(line.chunks) : line.chunks[j].count >= 0}}

\* the sum of the integers of the chunks of a line whose lower-cased label is in labels
RECURSIVE ChunkSum(_, _)
ChunkSum(chunks, labels) ==
    IF chunks = <<>> THEN 0
    ELSE (IF Head(chunks).count >= 0 /\ lower(Head(chunks).label) \in labels
          THEN Head(chunks).count ELSE 0) + ChunkSum(Tail(chunks), labels)

\* the labels counted under a key, leaving aside the variants of "failed" and "passed"
CountedAs(k) ==
    {k} \cup (CASE k = "errors" -> {"error"}
                [] k = "warnings" -> {"warning"}
                [] k = "rerun" -> {"reruns"}
                [] OTHER -> {})

FailPassVariants == {"failure", "failures", "pass", "passes"}

(* C12: _parse_pytest_summary returns a record of the nine counts.  If no
   line of the output is a banner or a bare summary, all nine are zero.
   Otherwise the counts are those of one such line: each count is the sum of
   the integers of the line's chunks labelled with the count's name or its
   synonym (error, warning, reruns), chunks with other labels change nothing,
   and counts of labels not on the line are zero.  Lines with a variant of
   "failed" or "passed" (failure, failures, pass, passes) are left to C13. *)
C12_SummaryCounting ==
    HelperReturned("_parse_pytest_summary") =>
        LET output == helper.arg
            lines == {i \in 1..Len(output) : IsBanner(output[i]) \/ IsBare(output[i])}
        IN /\ DOMAIN helper.ret = CountKeys
           /\ lines = {} => helper.ret = ZeroCounts
           /\ (lines # {} /\ \A i \in lines : LabelsOf(output[i]) \cap FailPassVariants = {})
                 => \E i \in lines :
                       \A k \in CountKeys :
                          helper.ret[k] = ChunkSum(output[i].chunks, CountedAs(k))

\* "5 passed, 2 skipped, 1 xfailed, 1 warning in 0.50s"
C12_Witness ==
    /\ HelperReturned("_parse_pytest_summary")
    /\ Len(helper.arg) = 1 /\ Len(helper.arg[1].chunks) = 4
    /\ helper.ret = [ZeroCounts EXCEPT !["passed"] = 5, !["skipped"] = 2,
                                       !["xfailed"] = 1, !["warnings"] = 1]

(* C13 as claimed: on a summary line, chunks labelled "failure" are added to
   failed, chunks labelled "pass" to passed, "warning" to warnings and "rerun"
   or "reruns" to rerun, whatever the case of the label's letters. *)
C13_SynonymFolding ==
    (/\ HelperReturned("_parse_pytest_summary")
     /\ Len(helper.arg) = 1
     /\ IsBanner(helper.arg[1]) \/ IsBare(helper.arg[1])
     /\ LabelsOf(helper.arg[1]) \subseteq CountKeys \cup {"failure", "pass", "warning", "reruns"})
    => LET chunks == helper.arg[1].chunks
       IN /\ helper.ret["failed"] = ChunkSum(chunks, {"failed", "failure"})
          /\ helper.ret["passed"] = ChunkSum(chunks, {"passed", "pass"})
          /\ helper.ret["warnings"] = ChunkSum(chunks, {"warnings", "warning"})
          /\ helper.ret["rerun"] = ChunkSum(chunks, {"rerun", "reruns"})

\* the largest element of a non-empty set of line numbers
Last(S) == CHOOSE i \in S : \A j \in S : j <= i

(* C14 as claimed: when the output has a banner line, the counts are those of
   its last banner line, also when a bare summary line follows it; the last
   bare summary line is used only when the output has no banner line. *)
C14_BannerPriority ==
    HelperReturned("_parse_pytest_summary") =>
        LET output == helper.arg
            banners == {i \in 1..Len(output) : IsBanner(output[i])}
            bares == {i \in 1..Len(output) : IsBare(output[i])}
        IN /\ banners # {} =>
                 helper.ret = _parse_pytest_summary(<<output[Last(banners)]>>)
           /\ (banners = {} /\ bares # {}) =>
                 helper.ret = _parse_pytest_summary(<<output[Last(bares)]>>)

\* position of a dependency file in the order its location is checked
FileRank(f) == CHOOSE i \in 1..Len(requirement_files) : requirement_files[i] = f

\* position of a group name in alphabetical order
NameRank(g) == CHOOSE i \in 1..4 : <<"ci", "dev", "test", "tests">>[i] = g

(* C15: _build_install_commands returns, in this order: one "pip install -r
   <file>" per conventional dependency file present, in the order the
   locations are checked; then, iff setup.py, setup.cfg or pyproject.toml
   exists, one "pip install -e ." whose extras are the declared group names
   among dev, test, tests, ci, each once, in alphabetical order (none when no
   such group is declared); then "pip install pytest coverage" as the last
   element; and nothing else. *)
C15_InstallCommandSynthesis ==
    HelperReturned("_build_install_commands") =>
        LET t == helper.arg
            cmds == helper.ret
            n == Len(cmds)
            present == {f \in Range(requirement_files) : f \in t.files}
            k == Cardinality(present)
            manifest == {"setup.py", "setup.cfg", "pyproject.toml"} \cap t.files # {}
            declared == IF "pyproject.toml" \in t.files
                        THEN t.optional \cup (IF t.poetry THEN t.poetry_groups ELSE {})
                        ELSE {}
            names == declared \cap {"dev", "test", "tests", "ci"}
        IN /\ n = k + (IF manifest THEN 1 ELSE 0) + 1
           /\ \A i \in 1..k :
                 /\ Len(cmds[i].argv) = 6
                 /\ SubSeq(cmds[i].argv, 1, 5) = <<"python", "-m", "pip", "install", "-r">>
                 /\ cmds[i].argv[6] \in present
                 /\ cmds[i].extras = <<>>
           /\ \A i, j \in 1..k :
                 i < j => FileRank(cmds[i].argv[6]) < FileRank(cmds[j].argv[6])
           /\ manifest =>
                 LET self == cmds[k + 1]
                 IN /\ self.argv = <<"python", "-m", "pip", "install", "-e", ".">>
                    /\ Range(self.extras) = names
                    /\ \A i, j \in 1..Len(self.extras) :
                          i < j => NameRank(self.extras[i]) < NameRank(self.extras[j])
           /\ cmds[n] = Cmd(<<"python", "-m", "pip", "install", "pytest", "coverage">>,
                            <<>>, <<>>)

\* only requirements.txt and a pyproject.toml with the optional group "test"
C15_Witness ==
    /\ HelperReturned("_build_install_commands")
    /\ helper.arg.files = {"requirements.txt", "pyproject.toml"}
    /\ helper.arg.optional = {"test"} /\ ~helper.arg.poetry
    /\ helper.ret = <<Cmd(<<"python", "-m", "pip", "install", "-r", "requirements.txt">>,
                          <<>>, <<>>),
                      Cmd(<<"python", "-m", "pip", "install", "-e", ".">>, <<"test">>, <<>>),
                      Cmd(<<"python", "-m", "pip", "install", "pytest", "coverage">>,
                          <<>>, <<>>)>>

\* the call of `last` ended after it invoked the handler of stage
EndedAfter(stage) == Ended /\ stage \in Range(last.handlers)

(* C16: a call that invokes the Publish handler raises RuntimeError and
   leaves no Publish cache exactly when the Package manifest artifact does not
   exist; otherwise the handler's result has status pending, the manifest path
   and the image tag, and pushed false.  The handler launches no external
   command and changes no file and not the checkout; a stored Publish result
   always has status pending. *)
C16_PublishContract ==
    /\ EndedAfter("publish") =>
          /\ last.stage = "publish"
          /\ (last.kind = "raise") = (ManifestFile \notin DOMAIN files)
          /\ last.kind = "raise" =>
                /\ last.error = "RuntimeError"
                /\ stage_output("publish") \notin DOMAIN cache
          /\ last.kind = "value" =>
                /\ last.value.status = "pending"
                /\ last.value.details.manifest_path = ManifestFile
                /\ last.value.details.image_tag = repo.commit
                /\ last.value.details.pushed = FALSE
                /\ cache[stage_output("publish")] = to_dict(last.value)
          /\ last.handlers = <<"publish">> =>
                /\ last.launches = <<>>
                /\ files = before.files
                /\ checkout = before.checkout
    /\ stage_output("publish") \in DOMAIN cache =>
          cache[stage_output("publish")].status = "pending"

\* Publish alone ran on an existing manifest and returned pending
C16_Witness ==
    /\ EndedAfter("publish") /\ last.kind = "value"
    /\ last.handlers = <<"publish">>
    /\ last.value.status = "pending"

(* C17: a call that invokes the Package handler while the Build or the Test
   cache file is missing raises at Package, writes no Package cache and leaves
   the files (the manifest among them) as they were.  A call that invokes
   only the Package and Publish handlers launches no external command.  A
   stored Package result has status completed and holds exactly the manifest
   path and the artifact count; the manifest then exists, embeds the details
   of the Build cache and of the Test cache unchanged, and lists as many
   artifact paths as the count says. *)
C17_PackageContract ==
    /\ (EndedAfter("package")
          /\ ~({stage_output("build"), stage_output("test")} \subseteq DOMAIN cache)) =>
          /\ last.kind = "raise" /\ last.stage = "package"
          /\ last.error = "FileNotFoundError"
          /\ stage_output("package") \notin DOMAIN cache
          /\ files = before.files
    /\ (Range(Seen.handlers) # {} /\ Range(Seen.handlers) \subseteq {"package", "publish"}) =>
          Seen.launches = <<>>
    /\ stage_output("package") \in DOMAIN cache =>
          LET stored == cache[stage_output("package")]
          IN /\ stored.status = "completed"
             /\ DOMAIN stored.details = {"manifest_path", "artifact_count"}
             /\ stored.details.manifest_path = ManifestFile
             /\ ManifestFile \in DOMAIN files
             /\ files[ManifestFile].build = cache[stage_output("build")].details
             /\ files[ManifestFile].tests = cache[stage_output("test")].details
             /\ stored.details.artifact_count = Len(files[ManifestFile].artifacts)

\* run_stage(Package) wrote the manifest and its cache from stored Build and Test results
C17_Witness ==
    /\ last.op = "run_stage" /\ last.kind = "value"
    /\ last.handlers = <<"package">> /\ last.written = <<"package">>
    /\ files[ManifestFile].tests = cache[stage_output("test")].details
    /\ cache[stage_output("test")].status = "failed"
    /\ last.value.details.artifact_count = 4

(* C18: status() returns one entry per stage whose cache file exists and none
   for the other stages, each entry with the status stored in that file, the
   entries in the fixed stage order; the call invokes no handler, launches
   nothing, and leaves the cache files, the other files and the checkout as
   they were. *)
C18_StatusReporting ==
    last.op = "status" =>
        LET entries == last.value
        IN /\ {entries[i].stage : i \in 1..Len(entries)} = DOMAIN cache
           /\ \A i \in 1..Len(entries) :
                 entries[i].status = cache[stage_output(entries[i].stage)].status
           /\ \A i, j \in 1..Len(entries) :
                 i < j => StageIdx(entries[i].stage) < StageIdx(entries[j].stage)
           /\ last.handlers = <<>> /\ last.launches = <<>> /\ last.written = <<>>
           /\ cache = before.cache
           /\ files = before.files
           /\ checkout = before.checkout

\* Discover and Plan completed, Build failed, the later stages not run
C18_Witness ==
    /\ last.op = "status"
    /\ last.value = <<[stage |-> "discover", status |-> "completed"],
                      [stage |-> "plan", status |-> "completed"],
                      [stage |-> "build", status |-> "failed"]>>

\* the collection and the execution command the Test handler launched
CollectCmd(p) == LaunchedBy("test", obs[p].launches)[1]

ExecCmd(p) == LaunchedBy("test", obs[p].launches)[3]

CollectArgv == <<"python", "-m", "pytest", "--collect-only", "-q">>

ExecArgv == <<"coverage", "run", "-m", "pytest", "-q", "--maxfail", "1", "--durations", "30">>

\* both commands carry the filter made of clauses, and no filter argument without clauses
FilterIs(p, clauses) ==
    LET option == IF clauses = <<>> THEN <<>> ELSE <<"-m">>
    IN /\ CollectCmd(p).argv = CollectArgv \o option
       /\ ExecCmd(p).argv = ExecArgv \o option
       /\ CollectCmd(p).expr = clauses
       /\ ExecCmd(p).expr = clauses

(* C19 as claimed: the filter has one clause "not <marker>" per entry of the
   excluded-marker list, in list order, and both commands carry it. *)
C19_Original ==
    \A p \in Procs : HandlerReturned(p, "test") =>
        FilterIs(p, [i \in 1..Len(repo.markers_exclude) |->
                        <<"not", repo.markers_exclude[i]>>])

(* C19: the filter has one clause "not <marker>" per non-empty entry of the
   excluded-marker list, in list order, joined by " and "; entries that are
   the empty string give no clause.  A list without non-empty entries (the
   empty list among them) gives the empty expression, and then no filter
   argument is passed to the collection or the execution command; both
   commands always carry the same filter. *)
C19_MarkerFilter ==
    \A p \in Procs : HandlerReturned(p, "test") =>
        LET markers == repo.markers_exclude
            kept == {i \in 1..Len(markers) : markers[i] # ""}
            clauses == CollectCmd(p).expr
        IN /\ Len(clauses) = Cardinality(kept)
           /\ \A n \in 1..Len(clauses) :
                 \E i \in kept :
                    /\ clauses[n] = <<"not", markers[i]>>
                    /\ Cardinality({j \in kept : j <= i}) = n
           /\ FilterIs(p, clauses)
           /\ kept = {} => CollectCmd(p).argv = CollectArgv /\ ExecCmd(p).argv = ExecArgv

\* the list ["slow", ""] gives the single clause "not slow"
C19_Witness ==
    \E p \in Procs :
        /\ HandlerReturned(p, "test")
        /\ repo.markers_exclude = <<"slow", "">>
        /\ ExecCmd(p).expr = <<<<"not", "slow">>>>

(* C20: every cache file holds a status among completed, failed and pending;
   a Discover, Plan or Package cache holds completed, a Publish cache holds
   pending, and a Build or Test cache holds completed or failed. *)
C20_StatusDomain ==
    \A s \in DOMAIN cache :
        /\ cache[s].status \in {"completed", "failed", "pending"}
        /\ s \in {stage_output("discover"), stage_output("plan"), stage_output("package")}
              => cache[s].status = "completed"
        /\ s = stage_output("publish") => cache[s].status = "pending"
        /\ s \in {stage_output("build"), stage_output("test")}
              => cache[s].status \in {"completed", "failed"}

\* all six cache files exist, the Test cache with status failed
C20_Witness ==
    /\ DOMAIN cache = {stage_output(s) : s \in StageNames}
    /\ cache[stage_output("test")].status = "failed"
    /\ cache[stage_output("build")].status = "completed"

\* the Discover handler ran in the call of `last` and one of its git commands
\* exited non-zero: the clone left no checkout, or the checkout is not at the revision
GitFailed ==
    /\ "discover" \in Range(Seen.handlers)
    /\ \/ GitClone \in Range(Seen.launches) /\ checkout = "absent"
       \/ GitCheckout \in Range(Seen.launches) /\ checkout # "pinned"

(* C21: when the clone or the revision checkout exits non-zero during
   Discover, the call ends by raising that command's error, no Discover cache
   file is written, the call wrote no cache file at all, and Discover is the
   only handler the call invoked. *)
C21_DiscoverNotDegraded ==
    GitFailed =>
        /\ last.kind = "raise"
        /\ last.error = "CommandError"
        /\ last.stage = "discover"
        /\ stage_output("discover") \notin DOMAIN cache
        /\ last.written = <<>>
        /\ last.handlers = <<"discover">>

\* run_until(Test): the clone succeeded and the revision checkout failed
C21_Witness ==
    /\ GitFailed
    /\ last.op = "run_until" /\ last.target = "test" /\ last.kind = "raise"
    /\ last.launches = <<GitClone, GitCheckout>>
    /\ checkout = "cloned"

(* C22 as claimed: whenever a stage handler is about to run, the checkout
   directory and the per-repository state, artifacts and logs directories
   exist. *)
C22_DirectoriesExist ==
    \A p \in Procs :
        pc[p] = "handler" => {"checkout", "state", "artifacts", "logs"} \subseteq dirs

(* C26 as claimed: for a descriptor with a revision, whenever a Discover cache
   file exists the checkout is pinned to that revision. *)
C26_PinnedCheckout ==
    (repo.commit # "" /\ stage_output("discover") \in DOMAIN cache) => checkout = "pinned"

BuildFailed ==
    /\ stage_output("build") \in DOMAIN cache
    /\ cache[stage_output("build")].status = "failed"

(* C25: if a Package cache file or the manifest exists, the Build cache file
   holds status completed.  When the Build result is failed, a
   run_until(Package) or run_until(Publish) call ends by raising; with a Test
   result stored the error is raised in the Package handler; and neither the
   manifest nor a Package cache nor a Publish cache exists.  (A failed Test
   result does not prevent Package: see the witness.) *)
C25_PackageNeedsBuild ==
    /\ (stage_output("package") \in DOMAIN cache \/ ManifestFile \in DOMAIN files) =>
          /\ stage_output("build") \in DOMAIN cache
          /\ cache[stage_output("build")].status = "completed"
    /\ BuildFailed =>
          /\ ManifestFile \notin DOMAIN files
          /\ stage_output("package") \notin DOMAIN cache
          /\ stage_output("publish") \notin DOMAIN cache
    /\ (BuildFailed /\ last.op = "run_until" /\ last.target \in {"package", "publish"}
          /\ Ended) =>
          /\ last.kind = "raise"
          /\ last.stage \in {"test", "package"}
          /\ stage_output("test") \in DOMAIN cache =>
                /\ last.stage = "package"
                /\ last.error = "KeyError"
                /\ last.handlers[Len(last.handlers)] = "package"

\* run_until(Package) completed on a completed Build and a failed Test result
C25_FailedTestPackaged ==
    /\ last.op = "run_until" /\ last.target = "package" /\ last.kind = "value"
    /\ "package" \in Range(last.handlers)
    /\ cache[stage_output("test")].status = "failed"
    /\ cache[stage_output("package")].status = "completed"

\* run_until(Publish) raised in the Package handler on a failed Build result
C25_Witness ==
    /\ BuildFailed /\ last.op = "run_until" /\ last.target = "publish"
    /\ last.kind = "raise" /\ last.stage = "package"

FixedOrder == <<"discover", "plan", "build", "test", "package", "publish">>

(* C24: when every call is a run_until, the stages that have a cache file are
   the first k stages of the order Discover, Plan, Build, Test, Package,
   Publish, for some k from 0 to 6. *)
C24_PrefixInvariant ==
    \E k \in 0..Len(FixedOrder) :
        DOMAIN cache = {stage_output(FixedOrder[i]) : i \in 1..k}

\* after a call aborted in Package on a failed Build, and a failed Test result
C24_Witness ==
    /\ last.op = "run_until" /\ last.kind = "raise" /\ last.stage = "package"
    /\ DOMAIN cache = {stage_output(FixedOrder[i]) : i \in 1..4}
    /\ cache[stage_output("build")].status = "failed"
    /\ cache[stage_output("test")].status = "failed"

\* the call of q has had the workspace to itself since it started: no other
\* caller is in a call, and none has ended a call since (`last` is the start of q's)
Exclusive(q) ==
    /\ pc[q] # "idle"
    /\ \A r \in Procs \ {q} : pc[r] = "idle"
    /\ last.kind = "running"

\* the calls that have the workspace to themselves
ExclusiveRunsOnce ==
    \A q \in Procs : Exclusive(q) =>
        /\ \A s \in DOMAIN before.cache : s \in DOMAIN cache /\ cache[s] = before.cache[s]
        /\ \A i \in 1..Len(obs[q].handlers) :
              stage_output(obs[q].handlers[i]) \notin DOMAIN before.cache
        /\ pc[q] = "write" => stage_output(call[q].stage) \notin DOMAIN cache

\* a caller that leaves the write step has stored its result, whatever was stored before
LaterWriteWins ==
    \A q \in Procs :
        (pc[q] = "write" /\ pc'[q] # "write") =>
            cache'[stage_output(call[q].stage)] = to_dict(result[q])

(* C23: run_stage takes no lock, so callers that overlap can both find the
   cache of a stage absent and both run its handler (the witness), and each
   write of a cache file replaces what another caller stored.  A call that
   has the workspace to itself invokes a handler only for a stage that had no
   cache file when the call started, its handler returns a result only while
   the stage still has no cache file, and the cache files that existed at
   its start stay as they were; so under exclusive use, with no deletion, the
   handler of a stage returns a result at most once. *)
C23_NoMutualExclusion == []ExclusiveRunsOnce /\ [][LaterWriteWins]_vars

\* two callers both found the Build cache absent and ran the Build handler: one
\* has written and returned its failed result, the other holds a completed
\* result that it is about to write over it
C23_Witness ==
    /\ last.kind = "value" /\ last.stage = "build"
    /\ last.handlers = <<"build">> /\ last.written = <<"build">>
    /\ cache[stage_output("build")] = to_dict(last.value)
    /\ last.value.status = "failed"
    /\ \E q \in Procs :
          /\ pc[q] = "write" /\ call[q].stage = "build"
          /\ "build" \in Range(obs[q].handlers)
          /\ result[q].status = "completed"

====
